---- MODULE Spec2Model ----
(***************************************************************************)
(* Validity checkers and motion validators of                              *)
(* voxblox_rrt_planner/ompl/ompl_voxblox.h.                                *)
(*                                                                         *)
(* Lengths are integers in units of 0.005 m for the c-blox classes (so     *)
(* that the 1.0e-2 clearance cutoff is 2 units and voxel_size / 2 is an    *)
(* integer) and in units of a fraction of a voxel for the voxblox classes. *)
(* States and segments lie on the x axis: a position is one integer, the   *)
(* ray direction is a sign and the norm is the absolute value.             *)
(***************************************************************************)
EXTENDS Integers, Sequences, FiniteSets

\* ---------------------------------------------------------------- bounds

\* Largest coordinate of a state handed to isValid / checkMotion.
MaxPos == 4

\* The clearance cutoff 1.0e-2 of the adaptive validator, in units of 0.005.
Cutoff == 2

\* voxblox::kEpsilon, in units of itself: a weight below it is unobserved.
kEpsilon == 1

\* Voxels per block side of a voxblox layer.
VoxelsPerSide == 2

Positions == 0..MaxPos

\* ---------------------------------------------------------------- helpers

Abs(x) == IF x < 0 THEN -x ELSE x

\* (goal - start).normalized() on the x axis; the zero vector stays zero.
Normalized(x) == IF x > 0 THEN 1 ELSE IF x < 0 THEN -1 ELSE 0

\* A fraction num / den kept exact; den = 0 is the double 0/0 (NaN) or x/0.
Frac(n, d) == [num |-> n, den |-> d]

\* No state was copied into last_valid.first.
NoState == [set |-> FALSE, x |-> 0]
StateAt(x) == [set |-> TRUE, x |-> x]

\* ------------------------------------------------- space information (si_)

\* si_->satisfiesBounds(state): the state-space bounds of the planner.
satisfiesBounds(c, p) == c.low <= p /\ p <= c.high

\* ------------------------------------------------------- voxblox layer

\* index = floor(position / voxel_size)
GridIndexFromPoint(p, voxel_size) == p \div voxel_size

\* Block and voxel-in-block index of a global voxel index.
BlockIndexOf(i) == i \div VoxelsPerSide
VoxelIndexOf(i) == i % VoxelsPerSide

\* layer_->getVoxelPtrByGlobalIndex: the voxel, or none when not allocated.
getVoxelPtrByGlobalIndex(layer, i) ==
  IF i \in DOMAIN layer THEN [found |-> TRUE, distance |-> layer[i]]
  ELSE [found |-> FALSE, distance |-> 0]

\* interpolator_.getDistance(position, &distance, interpolate = false):
\* the distance stored in the voxel that contains the position.
getDistance(layer, p, voxel_size) ==
  LET v == getVoxelPtrByGlobalIndex(layer, GridIndexFromPoint(p, voxel_size))
  IN  [success |-> v.found, distance |-> v.distance]

\* voxblox::utils::getSphereAroundPoint: the global indices of the voxels
\* whose centres lie within radius of the point (centre of voxel i is
\* i * voxel_size + voxel_size / 2).
getSphereAroundPoint(p, radius, voxel_size) ==
  { i \in (GridIndexFromPoint(p - radius, voxel_size) - 1)
            .. (GridIndexFromPoint(p + radius, voxel_size) + 1) :
      Abs(2 * i * voxel_size + voxel_size - 2 * p) <= 2 * radius }

\* layer_->getBlockPtrByIndex: null for a block that is not allocated.
getBlockPtrByIndex(layer, b) == b \in DOMAIN layer

\* block_ptr->isValidVoxelIndex
isValidVoxelIndex(v) == 0 <= v /\ v < VoxelsPerSide

\* ---------------------------------------------- TsdfVoxbloxValidityChecker

\* The verdict of the scan on one enumerated voxel: "hit" returns true,
\* "skip" continues with the next voxel.
TsdfVoxelVerdict(c, i) ==
  IF ~getBlockPtrByIndex(c.layer, BlockIndexOf(i)) THEN "skip"
  ELSE IF ~isValidVoxelIndex(VoxelIndexOf(i))
       THEN (IF c.treat_unknown_as_occupied THEN "hit" ELSE "skip")
  ELSE LET tsdf_voxel == c.layer[BlockIndexOf(i)][VoxelIndexOf(i)]
       IN  IF tsdf_voxel.weight < kEpsilon
           THEN (IF c.treat_unknown_as_occupied THEN "hit" ELSE "skip")
           ELSE IF tsdf_voxel.distance <= 0 THEN "hit" ELSE "skip"

TsdfCheckCollisionWithRobot(c, p) ==
  \E i \in getSphereAroundPoint(p, c.robot_radius, c.voxel_size) :
     TsdfVoxelVerdict(c, i) = "hit"

\* ---------------------------------------------- EsdfVoxbloxValidityChecker

EsdfCheckCollisionWithRobot(c, p) ==
  LET d == getDistance(c.layer, p, c.voxel_size)
  IN  IF ~d.success THEN TRUE ELSE c.robot_radius >= d.distance

\* Faulty variant: the comparison of radius and distance turned round.
EsdfAtVoxelInverted(c, i) ==
  LET voxel == getVoxelPtrByGlobalIndex(c.layer, i)
  IN  IF ~voxel.found THEN TRUE ELSE c.robot_radius <= voxel.distance

\* Faulty variant: a voxel that is not allocated counts as free.
EsdfAtVoxelMissingFree(c, i) ==
  LET voxel == getVoxelPtrByGlobalIndex(c.layer, i)
  IN  IF ~voxel.found THEN FALSE ELSE c.robot_radius >= voxel.distance

EsdfCheckCollisionWithRobotAtVoxel(c, i) ==
  LET voxel == getVoxelPtrByGlobalIndex(c.layer, i)
  IN  IF ~voxel.found THEN TRUE ELSE c.robot_radius >= voxel.distance

\* ---------------------------------------------------- CbloxValidityChecker

CbloxCheckCollisionWithRobot(c, p) == c.robot_radius >= c.get_map_distance[p]

remainingDistanceToCollision(c, p) == c.get_map_distance[p] - c.robot_radius

\* ------------------------------------------------ the checkers' interface

\* Virtual dispatch of checkCollisionWithRobot.
checkCollisionWithRobot(c, p) ==
  CASE c.kind = "tsdf" -> TsdfCheckCollisionWithRobot(c, p)
    [] c.kind = "esdf" -> EsdfCheckCollisionWithRobot(c, p)
    [] OTHER           -> CbloxCheckCollisionWithRobot(c, p)

\* VoxbloxValidityChecker::checkCollisionWithRobotAtVoxel, the default that
\* goes back to the position, overridden by the esdf checker.
checkCollisionWithRobotAtVoxel(c, i) ==
  IF c.kind = "esdf" THEN EsdfCheckCollisionWithRobotAtVoxel(c, i)
  ELSE checkCollisionWithRobot(c, i * c.voxel_size)

\* Faulty variant: isValid without the bounds check.
isValidNoBoundsCheck(c, p) == ~checkCollisionWithRobot(c, p)

\* VoxbloxValidityChecker::isValid and CbloxValidityChecker::isValid.
isValid(c, p) ==
  IF ~satisfiesBounds(c, p) THEN FALSE
  ELSE ~checkCollisionWithRobot(c, p)

\* ------------------------------------------------ VoxbloxMotionValidator

\* voxblox::castRay on the x axis: every grid index from the cell of the
\* start to the cell of the goal, in order, both included.
castRay(start_index, goal_index) ==
  [k \in 1..(Abs(goal_index - start_index) + 1) |->
      start_index + (k - 1) * Normalized(goal_index - start_index)]

\* The value of last_valid.second before the call: the wrapper's pair is
\* value-initialised.
SecondUnset == Frac(0, 1)

\* i / indices.size() on size_t, then cast to double.
IndexFraction(i, n) == Frac(i \div n, 1)

\* The position copied into last_valid.first on a collision at indices[k].
VoxbloxLastValidPos(indices, k, voxel_size) == indices[k] * voxel_size

\* checkMotion(s1, s2, last_valid); slot says that last_valid.first is not
\* null.  queried lists the grid indices handed to the checker.
VoxbloxCheckMotion(c, s1, s2, slot) ==
  LET voxel_size == c.voxel_size
      indices == castRay(GridIndexFromPoint(s1, voxel_size),
                         GridIndexFromPoint(s2, voxel_size))
      hits == { k \in 1..Len(indices) :
                  checkCollisionWithRobotAtVoxel(c, indices[k]) }
  IN  IF hits = {}
      THEN [status |-> "returned", ret |-> TRUE, first |-> NoState,
            second |-> SecondUnset, queried |-> indices, position |-> s2]
      ELSE LET k == CHOOSE x \in hits : \A y \in hits : x <= y
               pos == VoxbloxLastValidPos(indices, k, voxel_size)
           IN  [status |-> "returned", ret |-> FALSE,
                first |-> IF slot THEN StateAt(pos) ELSE NoState,
                second |-> IndexFraction(k - 1, Len(indices)),
                queried |-> SubSeq(indices, 1, k), position |-> pos]

\* -------------------------------------------------- CbloxMotionValidator

\* step_size = voxel_size_ / 2
StepSize(c) == c.voxel_size \div 2

\* Faulty variant: the else of the step rule lost, so that a clearance-limited step
\* is followed by the nominal one.
CbloxAdvanceMissingElse(step_size, remaining_distance) ==
  IF remaining_distance < step_size
  THEN remaining_distance + step_size ELSE step_size

\* The step the marching loop takes from a position without collision and
\* with clearance at least the cutoff.
CbloxAdvance(step_size, remaining_distance) ==
  IF remaining_distance < step_size THEN remaining_distance ELSE step_size

\* last_position = position - step_size_temp * ray_direction; step_size_temp
\* is set to step_size once and never changed.
CbloxLastPosition(position, step_size_temp, ray_direction) ==
  position - step_size_temp * ray_direction

\* The result written on a collision found inside the marching loop.
CbloxLoopFailure(start, ray_length, last_position, slot, queried, position) ==
  [status |-> "returned", ret |-> FALSE,
   first |-> IF slot THEN StateAt(last_position) ELSE NoState,
   second |-> Frac(Abs(last_position - start), ray_length),
   queried |-> queried, position |-> position]

\* The marching loop from the given position on, then the check of the goal.
\* queried lists the positions handed to the checker so far.  A pass of the
\* loop that leaves position where it was repeats for ever: "diverges".
RECURSIVE CbloxMarch(_, _, _, _, _, _)
CbloxMarch(c, start, goal, slot, position, queried) ==
  LET ray_direction == Normalized(goal - start)
      ray_length == Abs(goal - start)
      step_size == StepSize(c)
      step_size_temp == step_size
  IN  IF Abs(position - start) < ray_length
      THEN LET collision == CbloxCheckCollisionWithRobot(c, position)
               remaining_distance == remainingDistanceToCollision(c, position)
               last_position ==
                 CbloxLastPosition(position, step_size_temp, ray_direction)
               q == Append(queried, position)
               next == position
                       + CbloxAdvance(step_size, remaining_distance)
                         * ray_direction
           IN  IF collision
               THEN CbloxLoopFailure(start, ray_length, last_position, slot,
                                     q, position)
               ELSE IF remaining_distance < step_size
                       /\ remaining_distance < Cutoff
               THEN CbloxLoopFailure(start, ray_length, last_position, slot,
                                     q, position)
               ELSE IF next = position
               THEN [status |-> "diverges", ret |-> FALSE, first |-> NoState,
                     second |-> SecondUnset, queried |-> q,
                     position |-> position]
               ELSE CbloxMarch(c, start, goal, slot, next, q)
      ELSE IF CbloxCheckCollisionWithRobot(c, goal)
      THEN [status |-> "returned", ret |-> FALSE,
            first |-> IF slot THEN StateAt(position) ELSE NoState,
            second |-> Frac(Abs(position - start), ray_length),
            queried |-> Append(queried, goal), position |-> position]
      ELSE [status |-> "returned", ret |-> TRUE, first |-> NoState,
            second |-> SecondUnset, queried |-> Append(queried, goal),
            position |-> position]

\* Faulty variant: the check of the goal after the marching loop left out.
CbloxCheckMotionNoGoalCheck(c, s1, s2, slot) ==
  LET m == CbloxMarch(c, s1, s2, slot, s1, <<>>)
  IN  IF m.status = "returned" /\ ~m.ret
         /\ m.queried[Len(m.queried)] = s2
      THEN [m EXCEPT !.ret = TRUE, !.first = NoState, !.second = SecondUnset]
      ELSE m

\* checkMotion(s1, s2, last_valid) of the c-blox validator.
CbloxCheckMotion(c, s1, s2, slot) == CbloxMarch(c, s1, s2, slot, s1, <<>>)

\* ------------------------------------------------------------ the worlds

\* Voxel size of the voxblox layers in length units, so that states fall
\* inside a voxel as well as on its corner.
LayerVoxelSize == 2

\* Lower space bound of the planner; the upper one is the largest state.
SpaceLow == 1

\* Global voxel indices and block indices that hold the states 0..MaxPos.
Cells == 0..GridIndexFromPoint(MaxPos, LayerVoxelSize)
Blocks == 0..BlockIndexOf(GridIndexFromPoint(MaxPos, LayerVoxelSize))

Radii == {1, 2, 3}

\* A tsdf voxel: never observed, observed behind or on the surface,
\* observed free.
TsdfVoxels == { [weight |-> 0, distance |-> 0],
                [weight |-> 1, distance |-> -1],
                [weight |-> 1, distance |-> 0],
                [weight |-> 1, distance |-> 1] }

\* A tsdf layer: the allocated blocks, each with its voxels.
TsdfLayers ==
  UNION { [bs -> [0..(VoxelsPerSide - 1) -> TsdfVoxels]] : bs \in SUBSET Blocks }

\* The constructor sets treat_unknown_as_occupied_ to false.
TsdfCheckers ==
  [kind : {"tsdf"}, low : {SpaceLow}, high : {MaxPos},
   voxel_size : {LayerVoxelSize}, robot_radius : Radii,
   treat_unknown_as_occupied : {FALSE}, layer : TsdfLayers]

\* An esdf layer: the allocated voxels, each with its distance.
EsdfDistances == 0..3
EsdfLayers == UNION { [cs -> EsdfDistances] : cs \in SUBSET Cells }

EsdfCheckers ==
  [kind : {"esdf"}, low : {SpaceLow}, high : {MaxPos},
   voxel_size : {LayerVoxelSize}, robot_radius : Radii, layer : EsdfLayers]

\* The scenario of the specification: voxel size 0.1, robot radius 0.3, the
\* only occupied voxel at grid index 10, states from 0 to 2.0 (one unit is
\* 0.05, a voxel 2 units, the radius 6 units, the states 0..40).
ScenarioChecker ==
  [kind |-> "esdf", low |-> 0, high |-> 40,
   voxel_size |-> 2, robot_radius |-> 6,
   layer |-> [i \in 0..20 |-> 2 * Abs(i - 10)]]

\* Distances a map distance function returns, voxel sizes and radii of the
\* c-blox classes, in units of 0.005: with step 3 or 4 and cutoff 2 a
\* clearance is a collision, below the cutoff, below the step or at least
\* the step.
MapDistances == {2, 4, 5, 6}
CbloxVoxelSizes == {0, 6, 8}
CbloxRadii == {2, 3}

CbloxCheckers ==
  [kind : {"cblox"}, low : {SpaceLow}, high : {MaxPos},
   voxel_size : CbloxVoxelSizes, robot_radius : CbloxRadii,
   get_map_distance : [Positions -> MapDistances]]

Checkers == TsdfCheckers \cup EsdfCheckers \cup {ScenarioChecker}
            \cup CbloxCheckers

\* The states a caller hands to the checker: 0 lies outside the bounds.
StatesOf(c) == 0..c.high

\* ------------------------------------------------------------ the machine

VARIABLES checker, pc, op, s1, s2, slot, out

vars == <<checker, pc, op, s1, s2, slot, out>>

NoResult ==
  [status |-> "none", ret |-> FALSE, first |-> NoState,
   second |-> SecondUnset, queried |-> <<>>, position |-> 0]

Init ==
  /\ checker \in Checkers
  /\ pc = "idle"
  /\ op = "none"
  /\ s1 = 0
  /\ s2 = 0
  /\ slot = FALSE
  /\ out = NoResult

\* A query is issued when no query of the thread is running.
CanCall == pc = "idle"

\* setTreatUnknownAsOccupied(b) on the tsdf checker, between two queries.
setTreatUnknownAsOccupied ==
  /\ CanCall
  /\ checker.kind = "tsdf"
  /\ \E b \in BOOLEAN :
       checker' = [checker EXCEPT !.treat_unknown_as_occupied = b]
  /\ UNCHANGED <<pc, op, s1, s2, slot, out>>

\* isValid(state) on any checker.
IsValid ==
  /\ CanCall
  /\ \E p \in StatesOf(checker) :
       /\ op' = "isValid"
       /\ s1' = p
       /\ s2' = p
       /\ slot' = FALSE
       /\ out' = [NoResult EXCEPT !.status = "returned",
                                  !.ret = isValid(checker, p),
                                  !.position = p]
  /\ pc' = "done"
  /\ UNCHANGED checker

\* checkMotion of VoxbloxMotionValidator over a tsdf or an esdf checker.
VoxbloxMotion ==
  /\ CanCall
  /\ checker.kind \in {"tsdf", "esdf"}
  /\ \E a \in StatesOf(checker), b \in StatesOf(checker), sl \in BOOLEAN :
       /\ op' = "checkMotion"
       /\ s1' = a
       /\ s2' = b
       /\ slot' = sl
       /\ out' = VoxbloxCheckMotion(checker, a, b, sl)
  /\ pc' = "done"
  /\ UNCHANGED checker

\* checkMotion of CbloxMotionValidator; a call that never returns leaves
\* the thread in the loop.
CbloxMotion ==
  /\ CanCall
  /\ checker.kind = "cblox"
  /\ \E a \in StatesOf(checker), b \in StatesOf(checker), sl \in BOOLEAN :
       /\ op' = "checkMotion"
       /\ s1' = a
       /\ s2' = b
       /\ slot' = sl
       /\ out' = CbloxCheckMotion(checker, a, b, sl)
       /\ pc' = IF out'.status = "diverges" THEN "hung" ELSE "done"
  /\ UNCHANGED checker

\* The caller takes the result; the checker is as it was (queries only read).
Return ==
  /\ pc = "done"
  /\ pc' = "idle"
  /\ op' = "none"
  /\ s1' = 0
  /\ s2' = 0
  /\ slot' = FALSE
  /\ out' = NoResult
  /\ UNCHANGED checker

Next ==
  \/ setTreatUnknownAsOccupied
  \/ IsValid
  \/ VoxbloxMotion
  \/ CbloxMotion
  \/ Return

Spec == Init /\ [][Next]_vars

\* ------------------------------------------------------------ the claims

Returned(o) == pc = "done" /\ op = o

\* The same checker built with another robot radius.
WithRadius(c, r) == [c EXCEPT !.robot_radius = r]

\* How far above the checker's radius the larger radii range.
RadiusGrowth == 2

LargerRadii(c) == c.robot_radius..(c.robot_radius + RadiusGrowth)

\* C1: isValid returns false for a state outside the space bounds whatever
\* the collision check says, and otherwise the negation of
\* checkCollisionWithRobot at the state's position, for all three checkers.
C1_IsValidFailsClosed ==
  Returned("isValid") =>
    IF ~satisfiesBounds(checker, s1) THEN out.ret = FALSE
    ELSE out.ret = ~checkCollisionWithRobot(checker, s1)

\* An out-of-bounds state without collision was reported invalid.
C1_Witness ==
  /\ Returned("isValid")
  /\ ~satisfiesBounds(checker, s1)
  /\ ~checkCollisionWithRobot(checker, s1)
  /\ out.ret = FALSE

\* C2 as stated: checkMotion(A, A) returns isValid(A) for every A, also
\* outside the space bounds (threshold and distance-function checkers).
C2_ZeroLengthEqualsIsValid ==
  (Returned("checkMotion") /\ s1 = s2 /\ checker.kind # "tsdf")
    => out.ret = isValid(checker, s1)

\* C2 amended: for A inside the space bounds checkMotion(A, A) returns
\* isValid(A); checkMotion itself never looks at the bounds.
C2_ZeroLengthInBounds ==
  (Returned("checkMotion") /\ s1 = s2 /\ checker.kind # "tsdf"
     /\ satisfiesBounds(checker, s1))
    => out.ret = isValid(checker, s1)

\* A zero-length motion inside the bounds was rejected by the goal check of
\* the adaptive validator.
C2_Witness ==
  /\ Returned("checkMotion")
  /\ s1 = s2
  /\ checker.kind = "cblox"
  /\ satisfiesBounds(checker, s1)
  /\ out.ret = FALSE

\* Every voxel of the robot sphere is unobserved: in a block that is not
\* allocated, not a valid voxel index, or of weight below epsilon.
SphereUnobserved(c, p) ==
  LET sphere == getSphereAroundPoint(p, c.robot_radius, c.voxel_size)
  IN  /\ sphere # {}
      /\ \A i \in sphere :
           \/ ~getBlockPtrByIndex(c.layer, BlockIndexOf(i))
           \/ ~isValidVoxelIndex(VoxelIndexOf(i))
           \/ c.layer[BlockIndexOf(i)][VoxelIndexOf(i)].weight < kEpsilon

\* C3: with the whole robot sphere unobserved, the tsdf checker's isValid
\* returns true when treat_unknown_as_occupied is false and false when it
\* is true.
C3_UnknownPolicy ==
  (Returned("isValid") /\ checker.kind = "tsdf"
     /\ satisfiesBounds(checker, s1) /\ SphereUnobserved(checker, s1))
    => out.ret = ~checker.treat_unknown_as_occupied

\* The query of the current state is rejected again with radius r.
RejectedWithRadius(r) ==
  LET c == WithRadius(checker, r)
  IN  IF op = "isValid" THEN ~isValid(c, s1)
      ELSE IF checker.kind = "cblox"
      THEN LET m == CbloxCheckMotion(c, s1, s2, slot)
           IN  ~(m.status = "returned" /\ m.ret)
      ELSE ~VoxbloxCheckMotion(c, s1, s2, slot).ret

C5_FractionInUnitInterval ==
  (Returned("checkMotion") /\ ~out.ret /\ s1 # s2 /\ checker.voxel_size > 0)
    => /\ out.second.den > 0
       /\ 0 <= out.second.num
       /\ out.second.num <= out.second.den

\* C6: in the scenario (voxel size 0.1, radius 0.3, occupied voxel at index
\* 10) checkMotion from 0 to 2.0 returns false with a fraction of about one
\* half (here: between 1/4 and 3/4).
C6_ScenarioFractionHalf ==
  (Returned("checkMotion") /\ checker = ScenarioChecker
     /\ s1 = 0 /\ s2 = 40)
    => /\ ~out.ret
       /\ out.second.den > 0
       /\ 4 * out.second.num >= out.second.den
       /\ 4 * out.second.num <= 3 * out.second.den

\* C7: the position written to last_valid.first by a checkMotion that
\* returns false is one the checker reports free of collision and, in the
\* adaptive validator, the sample queried before the failing one.
C7_LastValidIsValid ==
  (Returned("checkMotion") /\ ~out.ret /\ slot)
    => /\ out.first.set
       /\ IF checker.kind = "cblox"
          THEN /\ out.first.x \in DOMAIN checker.get_map_distance
               /\ ~CbloxCheckCollisionWithRobot(checker, out.first.x)
               /\ Len(out.queried) >= 2
               /\ out.first.x = out.queried[Len(out.queried) - 1]
          ELSE ~checkCollisionWithRobotAtVoxel(
                  checker, GridIndexFromPoint(out.first.x, checker.voxel_size))

\* The grid indices around the layer, allocated or not.
IndexRange == -1..(GridIndexFromPoint(MaxPos, LayerVoxelSize) + 1)

C9_SamplesWithinStep ==
  (op = "checkMotion" /\ checker.kind = "cblox") =>
    \A k \in 1..(Len(out.queried) - 1) :
      Abs(out.queried[k + 1] - out.queried[k]) <= StepSize(checker)

\* A march with a clearance-limited step that ends with the goal check.
C9_Witness ==
  /\ Returned("checkMotion")
  /\ checker.kind = "cblox"
  /\ Len(out.queried) >= 3
  /\ out.queried[Len(out.queried)] = s2
  /\ \E k \in 1..(Len(out.queried) - 2) :
       Abs(out.queried[k + 1] - out.queried[k]) < StepSize(checker)

\* C10: every checkMotion of the adaptive validator returns a boolean, for
\* every voxel size, 0 included.
C10_AlwaysReturns ==
  (op = "checkMotion" /\ checker.kind = "cblox")
    => (pc = "done" /\ out.status = "returned")

====
